---- MODULE Spec2Model ----
(***************************************************************************)
(* Model of engine/generation.py: HFModel.generate_text, its batch-size    *)
(* estimator (infer_best_batch_size, infer_best_batch_size_by_heuristics), *)
(* the out-of-memory safe executor (oom_safe_batch_generation) and the     *)
(* generation-config builder (create_generation_config).                   *)
(*                                                                         *)
(* Conventions.                                                            *)
(*  - Python's None is the empty sequence <<>>, a present value x is <<x>>.*)
(*  - Memory amounts are integers counted in quarters of a GiB, so that    *)
(*    the divisors 0.5, 1, 2, 3 GiB of the heuristics are 2, 4, 8, 12.     *)
(*    Floating point arithmetic is modelled by exact rational arithmetic.  *)
(*  - A generated sequence is identified by <<c, k>>: row k of the tensor  *)
(*    returned by the c-th call of model.generate in the request.          *)
(*  - model.generate, the tokenizer, the persisted footprint table and the *)
(*    device are collaborators: what they return is drawn with \E. A call  *)
(*    of model.generate returns the rows asked for, runs out of memory or  *)
(*    raises another error; asked for 0 rows it may also return none, and  *)
(*    asked for a negative number it cannot return.                        *)
(***************************************************************************)
EXTENDS Integers, Sequences, FiniteSets, TLC

VARIABLES
    gpu_memory_map,         \* self.gpu_memory_map: device -> footprint
    max_memory_footprint,   \* self.max_memory_footprint
    pc,                     \* where the running call stands
    req,                    \* the arguments of the running generate_text call
    generation_config,      \* generate_text's local generation_config
    num_return_sequences,   \* generate_text's local num_return_sequences
    batch_size,             \* batch_size: generate_text's local, the executor's argument
    first_output,           \* rows returned by the executor
    batch_sizes,            \* generate_text's local batch_sizes
    i,                      \* index of the loop over batch_sizes (0-based)
    generated_text,         \* generate_text's local generated_text
    result,                 \* the value generate_text returned
    error,                  \* the exception generate_text raised
    trace,                  \* what the call did so far, in order
    est_in,                 \* arguments of a direct infer_best_batch_size call
    est_out,                \* what that call returned
    heur_in,                \* arguments of a direct infer_best_batch_size_by_heuristics call
    heur_out,               \* what that call returned
    cfg_in,                 \* arguments of a direct create_generation_config call
    cfg_out,                \* what that call returned or raised
    prev,                   \* observer: what an earlier seeded request returned
    passed,                 \* observer: the arguments of each model.generate call so far
    held                    \* the dict a footprint getter returned, in the caller's hands

vars == <<gpu_memory_map, max_memory_footprint, pc, req, generation_config,
          num_return_sequences, batch_size, first_output, batch_sizes,
          i, generated_text, result, error, trace, est_in, est_out,
          heur_in, heur_out, cfg_in, cfg_out, prev, passed, held>>

objvars == <<gpu_memory_map, max_memory_footprint>>

estvars == <<est_in, est_out>>

heurvars == <<heur_in, heur_out>>

cfgvars == <<cfg_in, cfg_out>>

\* The state of the methods called on their own
directvars == <<estvars, heurvars, cfgvars>>

---------------------------------------------------------------------------
(* Bounds of the model *)

MaxN == 5
MaxBatch == 3
MaxDevices == 1
MaxAvailableMemory == 48

---------------------------------------------------------------------------
(* Helpers *)

None == <<>>
Some(x) == <<x>>
IsNone(o) == o = <<>>
Val(o) == o[1]

Max(a, b) == IF a >= b THEN a ELSE b
Min(a, b) == IF a <= b THEN a ELSE b

\* Python's a // b on numbers: the floor of the quotient, b # 0
FloorDiv(a, b) == IF b > 0 THEN a \div b ELSE (-a) \div (-b)

RECURSIVE SumSeq(_)
SumSeq(s) == IF s = <<>> THEN 0 ELSE Head(s) + SumSeq(Tail(s))

RECURSIVE SumOver(_, _)
SumOver(f, S) ==
    IF S = {} THEN 0
    ELSE LET x == CHOOSE y \in S : TRUE IN f[x] + SumOver(f, S \ {x})

\* Python's [v] * n (empty when n <= 0)
Repeat(v, n) == [k \in 1..Max(n, 0) |-> v]

---------------------------------------------------------------------------
(* What the collaborators can answer *)

\* The three sources create_generation_config reads, in the order it reads them:
\* model.generation_config, model.config, the tokenizer. The first two sets
\* resolve, the third has no eos_token_id, the fourth no bos_token_id.
IdSources ==
    { [gen |-> [eos |-> Some(2), bos |-> Some(1), pad |-> Some(0)],
       cfg |-> [eos |-> Some(12), bos |-> Some(11), pad |-> Some(10)],
       tok |-> [eos |-> Some(22), bos |-> Some(21), pad |-> Some(20)]],
      [gen |-> [eos |-> None, bos |-> None, pad |-> None],
       cfg |-> [eos |-> Some(12), bos |-> None, pad |-> None],
       tok |-> [eos |-> Some(22), bos |-> Some(21), pad |-> None]],
      [gen |-> [eos |-> None, bos |-> Some(1), pad |-> Some(0)],
       cfg |-> [eos |-> None, bos |-> Some(11), pad |-> None],
       tok |-> [eos |-> None, bos |-> Some(21), pad |-> None]],
      [gen |-> [eos |-> Some(2), bos |-> None, pad |-> None],
       cfg |-> [eos |-> None, bos |-> None, pad |-> Some(10)],
       tok |-> [eos |-> None, bos |-> None, pad |-> None]] }

\* Total memory of device 0 (or of the host), in quarters of a GiB: 5, 10, 40 GiB.
\* Multiples of 20 quarters, so that 0.85 * memory is a whole number of quarters.
DeviceMemories == {20, 40, 160}

\* Footprints the constructor can measure: 2 GiB, 14 GiB
Footprints == {8, 56}

\* model.parameters(): the parameter count in billions, one per band and the bands' edges
ParameterCounts == {3, 5, 7, 10, 13, 20, 30}

\* The persisted footprint table memory_estimator/<model>/<dtype>.json, as loaded:
\* None when the file does not exist; else the observations length -> memory and
\* the flag only_scale_with_input_size (False when the file does not give it).
Tables ==
    { None,
      Some([obs |-> (10 :> 8) @@ (20 :> 16), only_scale_with_input_size |-> FALSE]),
      Some([obs |-> (10 :> 8) @@ (20 :> 16), only_scale_with_input_size |-> TRUE]),
      Some([obs |-> (10 :> 8) @@ (20 :> 12) @@ (30 :> 17), only_scale_with_input_size |-> FALSE]),
      Some([obs |-> (10 :> 8) @@ (20 :> 4) @@ (30 :> 16), only_scale_with_input_size |-> FALSE]),
      Some([obs |-> (10 :> 2) @@ (20 :> 12), only_scale_with_input_size |-> FALSE]),
      Some([obs |-> (10 :> 6) @@ (20 :> 6), only_scale_with_input_size |-> TRUE]) }

\* Length of the tokenized prompt, and the max_new_tokens argument
InputLengths == {4, 8, 10}
MaxNewTokens == {0, 10}

---------------------------------------------------------------------------
(* create_generation_config *)

\* Mutant: the tokenizer is asked first, the generation defaults last
FirstNotNoneTokenizerFirst(a, b, c) ==
    IF ~IsNone(c) THEN c ELSE IF ~IsNone(b) THEN b ELSE a

\* if a is not None: a  elif b is not None: b  elif c is not None: c  else: None
FirstNotNone(a, b, c) ==
    IF ~IsNone(a) THEN a ELSE IF ~IsNone(b) THEN b ELSE c

\* Mutant: the caller's do_sample is kept at temperature 0
ResolveDoSampleKept(do_sample, temperature) == do_sample

\* if temperature == 0: do_sample = False, lines 271-272
ResolveDoSample(do_sample, temperature) ==
    IF temperature = 0 THEN FALSE ELSE do_sample

\* Mutant: a missing pad_token_id is an error too
ConfigErrorPadRequired(eos, bos, pd) ==
    IF IsNone(eos) THEN "RuntimeError: eos_token_id"
    ELSE IF IsNone(bos) THEN "RuntimeError: bos_token_id"
    ELSE IF IsNone(pd) THEN "RuntimeError: pad_token_id"
    ELSE ""

\* The RuntimeError raised by the else branches of lines 275-292, "" when none is:
\* eos_token_id is looked for first, bos_token_id second, pad_token_id raises nothing
ConfigError(eos, bos, pd) ==
    IF IsNone(eos) THEN "RuntimeError: eos_token_id"
    ELSE IF IsNone(bos) THEN "RuntimeError: bos_token_id"
    ELSE ""

\* The GenerationConfig returned, or the RuntimeError raised. sampling is what
\* generation_config.update(top_k=, top_p=, temperature=) sets, None when
\* update is not called.
create_generation_config(ids, max_new_tokens, min_new_tokens, do_sample, top_k, top_p, temperature) ==
    LET ds  == ResolveDoSample(do_sample, temperature)
        eos == FirstNotNone(ids.gen.eos, ids.cfg.eos, ids.tok.eos)
        bos == FirstNotNone(ids.gen.bos, ids.cfg.bos, ids.tok.bos)
        pd  == FirstNotNone(ids.gen.pad, ids.cfg.pad, ids.tok.pad)
        pad == IF IsNone(pd) THEN eos ELSE pd
        err == ConfigError(eos, bos, pd)
    IN  IF err # ""
        THEN [ok |-> FALSE, err |-> err]
        ELSE [ok |-> TRUE, err |-> "",
              eos_token_id |-> eos, bos_token_id |-> bos, pad_token_id |-> pad,
              max_new_tokens |-> max_new_tokens, min_new_tokens |-> min_new_tokens,
              do_sample |-> ds,
              sampling |-> IF ds THEN Some([top_k |-> top_k, top_p |-> top_p,
                                            temperature |-> temperature])
                           ELSE None]

---------------------------------------------------------------------------
(* infer_best_batch_size_by_heuristics and infer_best_batch_size *)

\* Mutant: the result is not raised to 1
infer_best_batch_size_by_heuristics_unbounded(parameters, available_memory) ==
    IF parameters < 5 THEN FloorDiv(available_memory, 2)
    ELSE IF parameters < 10 THEN FloorDiv(available_memory, 4)
    ELSE IF parameters < 20 THEN FloorDiv(available_memory, 8)
    ELSE FloorDiv(available_memory, 12)

\* parameters in billions, available_memory in quarters of a GiB
infer_best_batch_size_by_heuristics(parameters, available_memory) ==
    LET batch == IF parameters < 5 THEN FloorDiv(available_memory, 2)
                 ELSE IF parameters < 10 THEN FloorDiv(available_memory, 4)
                 ELSE IF parameters < 20 THEN FloorDiv(available_memory, 8)
                 ELSE FloorDiv(available_memory, 12)
    IN  Max(batch, 1)

\* memory*0.85 - self.get_max_device_memory_footprint()
AvailableMemory(memory, footprint) == (17 * memory) \div 20 - footprint

\* scipy.stats.linregress(x, y) on the table, as exact fractions: with
\* n points, sxx = n*sum(x^2) - sum(x)^2 (> 0: the keys are distinct), sxy and syy
\* alike, slope = sxy/sxx, intercept = (sum(y) - slope*sum(x))/n and
\* rvalue^2 = sxy^2/(sxx*syy), taken as 0 when syy = 0. The order of the
\* observations (the argsort) does not change the sums.
Fit(obs) ==
    LET X == DOMAIN obs
        n == Cardinality(X)
        sx == SumOver([x \in X |-> x], X)
        sy == SumOver(obs, X)
        sxx == n * SumOver([x \in X |-> x * x], X) - sx * sx
        sxy == n * SumOver([x \in X |-> x * obs[x]], X) - sx * sy
        syy == n * SumOver([x \in X |-> obs[x] * obs[x]], X) - sy * sy
    IN  [n |-> n, sx |-> sx, sy |-> sy, sxx |-> sxx, sxy |-> sxy, syy |-> syy]

\* Mutant: no fit is trusted
GoodFitNever(fit) == FALSE

\* Mutant: r2 >= 0.4
GoodFitLoose(fit) == fit.syy # 0 /\ 5 * fit.sxy * fit.sxy >= 2 * fit.sxx * fit.syy

\* r2 >= 0.95
GoodFit(fit) == fit.syy # 0 /\ 20 * fit.sxy * fit.sxy >= 19 * fit.sxx * fit.syy

\* intercept + slope * sequence_length, as the fraction num / den with den > 0
MemoryNeededNum(fit, sequence_length) ==
    fit.sy * fit.sxx + fit.sxy * (fit.n * sequence_length - fit.sx)
MemoryNeededDen(fit) == fit.n * fit.sxx

\* The value returned, [ok |-> TRUE, value |-> batch], or the exception raised:
\* available_memory // 0.0 is inf or nan, which int() refuses.
infer_best_batch_size(input_size, max_new_tokens, memory, footprint, table, parameters) ==
    LET available_memory == AvailableMemory(memory, footprint)
    IN  IF IsNone(table)
        THEN [ok |-> TRUE,
              value |-> infer_best_batch_size_by_heuristics(parameters, available_memory)]
        ELSE
        LET fit == Fit(Val(table).obs)
            sequence_length == IF Val(table).only_scale_with_input_size
                               THEN input_size ELSE input_size + max_new_tokens
            num == MemoryNeededNum(fit, sequence_length)
        IN  IF ~GoodFit(fit)
            THEN [ok |-> TRUE,
                  value |-> infer_best_batch_size_by_heuristics(parameters, available_memory)]
            ELSE IF num = 0
            THEN [ok |-> FALSE, value |-> 0]
            ELSE [ok |-> TRUE,
                  value |-> FloorDiv(available_memory * MemoryNeededDen(fit), num)]

---------------------------------------------------------------------------
(* oom_safe_batch_generation and the plan of generate_text *)

\* Mutant: the product is rounded instead of floored
NewBatchSizeRounded(b) == Max(1, FloorDiv(8 * b + 5, 10))

\* Mutant: the product is rounded up
NewBatchSizeCeil(b) == Max(1, FloorDiv(8 * b + 9, 10))

\* Mutant: the batch size is not reduced
NewBatchSizeKept(b) == Max(1, b)

\* new_batch_size = max(1, math.floor(batch_size*0.8))
NewBatchSize(b) == Max(1, FloorDiv(8 * b, 10))

\* Mutant: the remainder batch is put first
BuildBatchSizesRemainderFirst(N, B) ==
    IF N > B /\ B > 0
    THEN LET q == FloorDiv(N, B)
             remainder == N - B * q
         IN  [ok |-> TRUE, err |-> "",
              plan |-> (IF remainder # 0 THEN <<remainder>> ELSE <<>>) \o Repeat(B, q)]
    ELSE [ok |-> TRUE, err |-> "", plan |-> <<N>>]

\* Mutant: the remainder is rounded up to one more full batch
BuildBatchSizesRoundedUp(N, B) ==
    IF N > B /\ B > 0
    THEN LET q == FloorDiv(N, B)
         IN  [ok |-> TRUE, err |-> "",
              plan |-> Repeat(B, IF N - B * q # 0 THEN q + 1 ELSE q)]
    ELSE [ok |-> TRUE, err |-> "", plan |-> <<N>>]

\* Mutant: the remainder is added to the last full batch
BuildBatchSizesMergedRemainder(N, B) ==
    IF N > B
    THEN IF B = 0 THEN [ok |-> FALSE, err |-> "ZeroDivisionError", plan |-> <<>>]
         ELSE LET q == FloorDiv(N, B)
                  remainder == N - B * q
              IN  [ok |-> TRUE, err |-> "",
                   plan |-> IF remainder # 0
                            THEN Repeat(B, q - 1) \o <<B + remainder>>
                            ELSE Repeat(B, q)]
    ELSE [ok |-> TRUE, err |-> "", plan |-> <<N>>]

\* Mutant: one sequence per batch
BuildBatchSizesSingles(N, B) ==
    IF N > B
    THEN IF B = 0 THEN [ok |-> FALSE, err |-> "ZeroDivisionError", plan |-> <<>>]
         ELSE [ok |-> TRUE, err |-> "", plan |-> <<B>> \o Repeat(1, N - B)]
    ELSE [ok |-> TRUE, err |-> "", plan |-> <<N>>]

\* Mutant: the remainder batch is left out and the sum is not asserted
BuildBatchSizesNoRemainder(N, B) ==
    IF N > B
    THEN IF B = 0 THEN [ok |-> FALSE, err |-> "ZeroDivisionError", plan |-> <<>>]
         ELSE [ok |-> TRUE, err |-> "", plan |-> Repeat(B, FloorDiv(N, B))]
    ELSE [ok |-> TRUE, err |-> "", plan |-> <<N>>]

\* generate_text, lines 470-477: the list batch_sizes, or the exception raised
\* (N // 0, or the assert on the sum).
BuildBatchSizes(N, B) ==
    IF N > B
    THEN IF B = 0 THEN [ok |-> FALSE, err |-> "ZeroDivisionError", plan |-> <<>>]
         ELSE LET q == FloorDiv(N, B)
                  remainder == N - B * q
                  plan == Repeat(B, q) \o (IF remainder # 0 THEN <<remainder>> ELSE <<>>)
              IN  IF SumSeq(plan) = N
                  THEN [ok |-> TRUE, err |-> "", plan |-> plan]
                  ELSE [ok |-> FALSE, err |-> "AssertionError", plan |-> plan]
    ELSE [ok |-> TRUE, err |-> "", plan |-> <<N>>]

\* The rows of the tensor returned by the c-th generate call, asked for size rows
Rows(c, size) == [k \in 1..size |-> <<c, k>>]

\* Mutant: the batch is put in front of the text
AppendBatchInFront(text, generated_batch) == generated_batch \o text

\* generated_text += generated_batch, line 506: one decoded sequence per row of
\* the batch, in the order of the rows
AppendBatch(text, generated_batch) == text \o generated_batch

---------------------------------------------------------------------------
(* The state after HFModel.__init__ *)

\* An event of the trace
Ev(ev, size, res, by) == [ev |-> ev, size |-> size, res |-> res, by |-> by]

NoResult == [kind |-> "none", value |-> <<>>]

\* The devices the model was loaded on (none: the model is on the cpu)
DeviceSets == SUBSET (0..(MaxDevices - 1))

\* self.max_memory_footprint, lines 68-73
MaxFootprint(map, cpu_footprint) ==
    IF DOMAIN map # {}
    THEN CHOOSE m \in {map[d] : d \in DOMAIN map} : \A d \in DOMAIN map : map[d] <= m
    ELSE cpu_footprint

IdleLocals ==
    /\ pc = "idle"
    /\ req = None
    /\ generation_config = None
    /\ num_return_sequences = 0
    /\ batch_size = 0
    /\ first_output = <<>>
    /\ batch_sizes = <<>>
    /\ i = 0
    /\ generated_text = <<>>
    /\ result = NoResult
    /\ error = ""
    /\ trace = <<>>
    /\ passed = <<>>

InitObject ==
    \E devices \in DeviceSets, cpu_footprint \in Footprints :
        \E map \in [devices -> Footprints] :
            /\ gpu_memory_map = map
            /\ max_memory_footprint = MaxFootprint(map, cpu_footprint)

Init ==
    /\ InitObject
    /\ IdleLocals
    /\ est_in = None
    /\ est_out = None
    /\ heur_in = None
    /\ heur_out = None
    /\ cfg_in = None
    /\ cfg_out = None
    /\ prev = None
    /\ held = None

---------------------------------------------------------------------------
(* generate_text, up to its first call of model.generate *)

\* The arguments a caller passes
RequestCounts == 1..MaxN
BatchSizeArgs == {None} \cup {Some(b) : b \in 1..MaxBatch}
Temperatures == {0, 9}
Seeds == {None, Some(7)}

\* if num_return_sequences > 1 and not generation_config.do_sample, lines 425-429
GreedyCollapse(N, do_sample) == N > 1 /\ ~do_sample

\* Mutant: the batch size is not clamped
ClampBatchSizeNone(b, N) == b

\* batch_size = min(batch_size, num_return_sequences), line 459
ClampBatchSize(b, N) == Min(b, N)

\* Number of model.generate calls made so far in the request
NumCalls(tr) == Cardinality({k \in 1..Len(tr) : tr[k].ev = "generate"})

\* torch.cuda.is_available(): true when the model is on a gpu, and the host of
\* a model on the cpu may have a gpu or not
CudaAvailable(map) == IF DOMAIN map # {} THEN {TRUE} ELSE BOOLEAN

\* Mutant: the prompt is tokenized and moved to the device before the config is built
TraceAtConfigAfterTransfer(seed) ==
    (IF IsNone(seed) THEN <<>> ELSE <<Ev("seed", Val(seed), "", "generate_text")>>)
    \o <<Ev("to_device", 0, "", "generate_text"), Ev("config", 0, "", "generate_text")>>

\* Mutant: the seed is not applied
TraceAtConfigNoSeed(seed) == <<Ev("config", 0, "", "generate_text")>>

\* What generate_text has done when create_generation_config returns or raises,
\* lines 417-423
TraceAtConfig(seed) ==
    (IF IsNone(seed) THEN <<>> ELSE <<Ev("seed", Val(seed), "", "generate_text")>>)
    \o <<Ev("config", 0, "", "generate_text")>>

\* generate_text's local input when the trace is tr: the tokenized prompt, moved
\* to self.input_device at line 447 when cuda is available
InputOf(tr) ==
    IF \E k \in 1..Len(tr) : tr[k].ev = "to_device"
    THEN "prompt tokens on input_device" ELSE "prompt tokens on cpu"

\* The arguments of the executor's model.generate call, lines 626-627, as
\* generate_text passed them at lines 463-466
ExecGenerateArgs(cfg, tr, size) ==
    [input |-> InputOf(tr), generation_config |-> cfg,
     stopping_criteria |-> "stopping_criteria of line 450", num_return_sequences |-> size]

\* Mutant: the later batches are generated with the model's own generation config
BatchGenerateArgsOwnConfig(cfg, tr, size) ==
    [input |-> InputOf(tr), generation_config |-> None,
     stopping_criteria |-> "stopping_criteria of line 450", num_return_sequences |-> size]

\* The arguments of the model.generate call of a later batch, lines 487-489
BatchGenerateArgs(cfg, tr, size) ==
    [input |-> InputOf(tr), generation_config |-> cfg,
     stopping_criteria |-> "stopping_criteria of line 450", num_return_sequences |-> size]

Raise(e, tr) ==
    /\ pc' = "raised"
    /\ error' = e
    /\ trace' = tr

\* generate_text called with num_return_sequences in Ns and batch_size in Bs,
\* lines 417-466
RequestWith(Ns, Bs) ==
    /\ pc = "idle"
    /\ \E N \in Ns, do_sample \in BOOLEAN, temperature \in Temperatures,
          seed \in Seeds, barg \in Bs, ids \in IdSources,
          input_length \in InputLengths, max_new_tokens \in MaxNewTokens,
          cuda \in CudaAvailable(gpu_memory_map) :
        LET cfg == create_generation_config(ids, max_new_tokens, 5, do_sample,
                                            Some(40), Some(9), temperature)
            tr0 == TraceAtConfig(seed)
        IN  /\ req' = Some([num_return_sequences |-> N, do_sample |-> do_sample,
                            temperature |-> temperature, seed |-> seed,
                            batch_size |-> barg])
            /\ IF ~cfg.ok
               THEN /\ Raise(cfg.err, tr0)
                    /\ UNCHANGED <<generation_config, num_return_sequences, batch_size>>
               ELSE
               LET collapse == GreedyCollapse(N, cfg.do_sample)
                   n == IF collapse THEN 1 ELSE N
                   tr1 == tr0 \o (IF collapse
                                  THEN <<Ev("warn_greedy", 0, "", "generate_text")>>
                                  ELSE <<>>)
                              \o (IF cuda
                                  THEN <<Ev("to_device", 0, "", "generate_text")>>
                                  ELSE <<>>)
               IN  /\ generation_config' = Some(cfg)
                   /\ num_return_sequences' = n
                   /\ IF IsNone(barg)
                      THEN \E memory \in DeviceMemories, table \in Tables,
                              parameters \in ParameterCounts :
                           LET est == infer_best_batch_size(input_length, max_new_tokens,
                                          memory, max_memory_footprint, table, parameters)
                           IN  IF ~est.ok
                               THEN /\ Raise("OverflowError", tr1)
                                    /\ UNCHANGED batch_size
                               ELSE /\ batch_size' = ClampBatchSize(est.value, n)
                                    /\ pc' = "exec_call"
                                    /\ trace' = tr1 \o <<Ev("estimate", 0, "",
                                                           "generate_text")>>
                                    /\ error' = error
                      ELSE /\ batch_size' = ClampBatchSize(Val(barg), n)
                           /\ pc' = "exec_call"
                           /\ trace' = tr1
                           /\ error' = error
    /\ UNCHANGED <<objvars, directvars, prev, held, passed, first_output, batch_sizes, i,
                   generated_text, result>>

Request == RequestWith(RequestCounts, BatchSizeArgs)

---------------------------------------------------------------------------
(* oom_safe_batch_generation *)

\* Mutant: every RuntimeError is taken for an out-of-memory error
IsOutOfMemoryAnyError(kind) == TRUE

\* isinstance(e, torch.cuda.OutOfMemoryError), lines 629-633
IsOutOfMemory(kind) == kind = "oom"

\* Mutant: the floor of the reduction is not checked
CannotReduceNever(b) == FALSE

\* if batch_size == 1: raise, lines 636-637
CannotReduce(b) == b = 1

\* Mutant: the retry releases nothing
RetryEventsNoRelease(new_batch_size) ==
    << Ev("warn_reduce", new_batch_size, "", "executor") >>

\* Mutant: the retry releases twice
RetryEventsReleaseTwice(new_batch_size) ==
    << Ev("warn_reduce", new_batch_size, "", "executor"),
       Ev("gc", 0, "", "executor"),
       Ev("empty_cache", 0, "", "executor"),
       Ev("gc", 0, "", "executor"),
       Ev("empty_cache", 0, "", "executor") >>

\* What a retry does before it calls itself, lines 638-641
RetryEvents(new_batch_size) ==
    << Ev("warn_reduce", new_batch_size, "", "executor"),
       Ev("gc", 0, "", "executor"),
       Ev("empty_cache", 0, "", "executor") >>

\* Mutant: the list is returned whatever its length
ReturnValueAlwaysList(N, text) == [kind |-> "list", value |-> text]

\* return generated_text[0] if num_return_sequences == 1 else generated_text,
\* lines 508-512
ReturnValue(N, text) ==
    IF N = 1 THEN [kind |-> "str", value |-> text[1]]
    ELSE [kind |-> "list", value |-> text]

\* The loop over batch_sizes from index j on, lines 481-512, after the rows of
\* batch j-1 were appended to text: the next call, or the return
Continue(plan, j, text, tr) ==
    /\ generated_text' = text
    /\ i' = j
    /\ trace' = tr
    /\ IF j < Len(plan)
       THEN /\ pc' = "batch_call"
            /\ UNCHANGED <<result, error>>
       ELSE /\ pc' = "returned"
            /\ result' = ReturnValue(num_return_sequences, text)
            /\ UNCHANGED error

\* model.generate returns in the executor: the executor returns (out, batch_size),
\* generate_text builds batch_sizes and takes the first batch from first_output.
\* A call asked for a negative number of rows cannot return.
ExecGenerateOk ==
    /\ pc = "exec_call"
    /\ batch_size >= 0
    /\ LET c == NumCalls(trace) + 1
           out == Rows(c, batch_size)
           tr == Append(trace, Ev("generate", batch_size, "ok", "executor"))
           built == BuildBatchSizes(num_return_sequences, batch_size)
       IN  /\ first_output' = out
           /\ batch_sizes' = built.plan
           /\ IF ~built.ok
              THEN /\ Raise(built.err, tr)
                   /\ UNCHANGED <<i, generated_text, result>>
              ELSE Continue(built.plan, 1, AppendBatch(<<>>, out), tr)
    /\ passed' = Append(passed, ExecGenerateArgs(generation_config, trace, batch_size))
    /\ UNCHANGED <<objvars, req, generation_config, num_return_sequences,
                   batch_size, directvars, prev, held>>

\* model.generate raises in the executor
ExecRaises(kind, e) ==
    /\ pc = "exec_call"
    /\ LET tr == Append(trace, Ev("generate", batch_size, kind, "executor"))
       IN  IF IsOutOfMemory(kind)
           THEN /\ pc' = "exec_failed"
                /\ trace' = tr
                /\ UNCHANGED error
           ELSE Raise(e, tr)
    /\ passed' = Append(passed, ExecGenerateArgs(generation_config, trace, batch_size))
    /\ UNCHANGED <<objvars, req, generation_config, num_return_sequences,
                   batch_size, first_output, batch_sizes, i, generated_text, result,
                   directvars, prev, held>>

ExecGenerateOOM == ExecRaises("oom", "OutOfMemoryError")

ExecGenerateError == ExecRaises("err", "GenerateError")

\* if retry: ..., lines 635-644
ExecRetry ==
    /\ pc = "exec_failed"
    /\ IF CannotReduce(batch_size)
       THEN /\ Raise("RuntimeError: OOM at batch size 1", trace)
            /\ UNCHANGED batch_size
       ELSE LET new_batch_size == NewBatchSize(batch_size)
            IN  /\ batch_size' = new_batch_size
                /\ trace' = trace \o RetryEvents(new_batch_size)
                /\ pc' = "exec_call"
                /\ UNCHANGED error
    /\ UNCHANGED <<objvars, req, generation_config, num_return_sequences,
                   first_output, batch_sizes, i, generated_text, result, directvars, prev,
                   held, passed>>

---------------------------------------------------------------------------
(* generate_text: the batches after the first, lines 481-506 *)

BatchGenerateOk ==
    /\ pc = "batch_call"
    /\ LET size == batch_sizes[i + 1]
           c == NumCalls(trace) + 1
       IN  Continue(batch_sizes, i + 1, AppendBatch(generated_text, Rows(c, size)),
                    Append(trace, Ev("generate", size, "ok", "generate_text")))
    /\ passed' = Append(passed, BatchGenerateArgs(generation_config, trace, batch_sizes[i + 1]))
    /\ UNCHANGED <<objvars, req, generation_config, num_return_sequences,
                   batch_size, first_output, batch_sizes, directvars, prev, held>>

BatchRaises(kind, e) ==
    /\ pc = "batch_call"
    /\ Raise(e, Append(trace, Ev("generate", batch_sizes[i + 1], kind, "generate_text")))
    /\ passed' = Append(passed, BatchGenerateArgs(generation_config, trace, batch_sizes[i + 1]))
    /\ UNCHANGED <<objvars, req, generation_config, num_return_sequences,
                   batch_size, first_output, batch_sizes, i, generated_text, result,
                   directvars, prev, held>>

BatchGenerateOOM == BatchRaises("oom", "OutOfMemoryError")

BatchGenerateError == BatchRaises("err", "GenerateError")

\* The caller has the value or the exception; the object is ready for the next call
Finish ==
    /\ pc \in {"returned", "raised"}
    /\ pc' = "idle"
    /\ req' = None
    /\ generation_config' = None
    /\ num_return_sequences' = 0
    /\ batch_size' = 0
    /\ first_output' = <<>>
    /\ batch_sizes' = <<>>
    /\ i' = 0
    /\ generated_text' = <<>>
    /\ result' = NoResult
    /\ error' = ""
    /\ trace' = <<>>
    /\ passed' = <<>>
    /\ UNCHANGED <<objvars, directvars, prev, held>>

Next ==
    \/ Request
    \/ ExecGenerateOk
    \/ ExecGenerateOOM
    \/ ExecGenerateError
    \/ ExecRetry
    \/ BatchGenerateOk
    \/ BatchGenerateOOM
    \/ BatchGenerateError
    \/ Finish

Spec == Init /\ [][Next]_vars

---------------------------------------------------------------------------
(* The worked example: 20 sequences asked for, batch size 10 *)

ExampleRequest == RequestWith({20}, {Some(10)})

NextExample ==
    \/ ExampleRequest
    \/ ExecGenerateOk
    \/ ExecGenerateOOM
    \/ ExecGenerateError
    \/ ExecRetry
    \/ BatchGenerateOk
    \/ BatchGenerateOOM
    \/ BatchGenerateError
    \/ Finish

SpecExample == Init /\ [][NextExample]_vars

---------------------------------------------------------------------------
(* infer_best_batch_size called on its own *)

EstimatorInputs ==
    [input_size : InputLengths, max_new_tokens : MaxNewTokens,
     memory : DeviceMemories, table : Tables, parameters : ParameterCounts]

InitEstimator ==
    /\ InitObject
    /\ IdleLocals
    /\ est_in \in {Some(x) : x \in EstimatorInputs}
    /\ est_out = None
    /\ heur_in = None
    /\ heur_out = None
    /\ cfg_in = None
    /\ cfg_out = None
    /\ prev = None
    /\ held = None

InferBestBatchSize ==
    /\ ~IsNone(est_in)
    /\ IsNone(est_out)
    /\ LET a == Val(est_in)
       IN  est_out' = Some(infer_best_batch_size(a.input_size, a.max_new_tokens, a.memory,
                                max_memory_footprint, a.table, a.parameters))
    /\ UNCHANGED <<objvars, pc, req, generation_config, num_return_sequences, batch_size,
                   first_output, batch_sizes, i, generated_text, result, error, trace,
                   est_in, heurvars, cfgvars, prev, passed, held>>

NextEstimator == InferBestBatchSize

SpecEstimator == InitEstimator /\ [][NextEstimator]_vars

---------------------------------------------------------------------------
(* infer_best_batch_size_by_heuristics called on its own *)

\* The available memory passed, in quarters of a GiB: from -2 GiB to
\* MaxAvailableMemory quarters
AvailableMemories == (-8)..MaxAvailableMemory

HeuristicsInputs ==
    [parameters : ParameterCounts, available_memory : AvailableMemories]

InitHeuristics ==
    /\ InitObject
    /\ IdleLocals
    /\ est_in = None
    /\ est_out = None
    /\ heur_in \in {Some(x) : x \in HeuristicsInputs}
    /\ heur_out = None
    /\ cfg_in = None
    /\ cfg_out = None
    /\ prev = None
    /\ held = None

InferBestBatchSizeByHeuristics ==
    /\ ~IsNone(heur_in)
    /\ IsNone(heur_out)
    /\ LET a == Val(heur_in)
       IN  heur_out' = Some(infer_best_batch_size_by_heuristics(a.parameters,
                                                                a.available_memory))
    /\ UNCHANGED <<objvars, pc, req, generation_config, num_return_sequences, batch_size,
                   first_output, batch_sizes, i, generated_text, result, error, trace,
                   estvars, heur_in, cfgvars, prev, passed, held>>

NextHeuristics == InferBestBatchSizeByHeuristics

SpecHeuristics == InitHeuristics /\ [][NextHeuristics]_vars

---------------------------------------------------------------------------
(* create_generation_config called on its own *)

\* What one source declares: each identifier is there or is None. The values
\* tell the sources apart: base 0 for model.generation_config, 10 for
\* model.config, 20 for the tokenizer.
SourceIds(base) ==
    [eos : {None, Some(base + 2)}, bos : {None, Some(base + 1)}, pad : {None, Some(base)}]

AllIdSources == [gen : SourceIds(0), cfg : SourceIds(10), tok : SourceIds(20)]

ConfigInputs ==
    [ids : AllIdSources, do_sample : BOOLEAN, temperature : Temperatures,
     top_k : {None, Some(40)}]

InitConfig ==
    /\ InitObject
    /\ IdleLocals
    /\ est_in = None
    /\ est_out = None
    /\ heur_in = None
    /\ heur_out = None
    /\ cfg_in \in {Some(x) : x \in ConfigInputs}
    /\ cfg_out = None
    /\ prev = None
    /\ held = None

CreateGenerationConfig ==
    /\ ~IsNone(cfg_in)
    /\ IsNone(cfg_out)
    /\ LET a == Val(cfg_in)
       IN  cfg_out' = Some(create_generation_config(a.ids, 10, 5, a.do_sample, a.top_k,
                                                    Some(9), a.temperature))
    /\ UNCHANGED <<objvars, pc, req, generation_config, num_return_sequences, batch_size,
                   first_output, batch_sizes, i, generated_text, result, error, trace,
                   estvars, heurvars, cfg_in, prev, passed, held>>

NextConfig == CreateGenerationConfig

SpecConfig == InitConfig /\ [][NextConfig]_vars

---------------------------------------------------------------------------
(* Reading the trace *)

IsGenerate(e) == e.ev = "generate"
IsExecGenerate(e) == e.ev = "generate" /\ e.by = "executor"
IsBatchGenerate(e) == e.ev = "generate" /\ e.by = "generate_text"

\* All model.generate calls of the request, those of the executor, those of
\* the loop over the later batches
Calls == SelectSeq(trace, IsGenerate)
Attempts == SelectSeq(trace, IsExecGenerate)
LaterCalls == SelectSeq(trace, IsBatchGenerate)

\* The rows returned by the calls cs that succeeded, in the order of the calls;
\* c is the number of the first call of cs
RECURSIVE OkRows(_, _)
OkRows(cs, c) ==
    IF cs = <<>> THEN <<>>
    ELSE (IF Head(cs).res = "ok" THEN Rows(c, Head(cs).size) ELSE <<>>)
         \o OkRows(Tail(cs), c + 1)

\* The caller asked for greedy search: do_sample=False or temperature=0
GreedyAsked == ~Val(req).do_sample \/ Val(req).temperature = 0

\* The number of sequences the request is for, after the greedy collapse
RequestedCount ==
    IF Val(req).num_return_sequences > 1 /\ GreedyAsked
    THEN 1 ELSE Val(req).num_return_sequences

\* The request got past create_generation_config
ConfigBuilt == ~IsNone(req) /\ ~IsNone(generation_config)

---------------------------------------------------------------------------
(* Requests whose calls of model.generate come back *)

\* The next step of the running request: a model.generate call returns or
\* raises, or the executor handles the failure of its call
RequestStep ==
    \/ ExecGenerateOk
    \/ ExecGenerateOOM
    \/ ExecGenerateError
    \/ ExecRetry
    \/ BatchGenerateOk
    \/ BatchGenerateOOM
    \/ BatchGenerateError

\* generate_text runs in one thread from statement to statement, and every
\* call of the collaborator returns or raises: a running request always takes
\* its next step
SpecLive == Init /\ [][Next]_vars /\ WF_vars(RequestStep)

---------------------------------------------------------------------------
(* What the sampled sequences depend on *)

\* The state of the random number generators when the event at position k of
\* the trace tr happens: the seed set_all_seeds gave them last and the sizes of
\* the generate calls that have drawn from them since. Without a seed it is
\* whatever the process had, which differs from one request (epoch) to the next.
RngAt(tr, k, epoch) ==
    LET seeded == {j \in 1..(k - 1) : tr[j].ev = "seed"}
    IN  IF seeded = {}
        THEN [seed |-> None, drawn |-> <<>>, epoch |-> epoch]
        ELSE LET j == CHOOSE m \in seeded : \A n \in seeded : n <= m
                 between == SelectSeq(SubSeq(tr, j + 1, k - 1), IsGenerate)
             IN  [seed |-> Some(tr[j].size),
                  drawn |-> [m \in 1..Len(between) |-> between[m].size],
                  epoch |-> 0]

\* What the generate call at position k returned: with sampling the sequences
\* are drawn from the generators in the state they are in for a batch of this
\* size, with greedy search they depend on neither
Sampled(tr, k, do_sample, epoch) ==
    IF do_sample
    THEN [size |-> tr[k].size, rng |-> RngAt(tr, k, epoch)]
    ELSE [size |-> tr[k].size, rng |-> [seed |-> None, drawn |-> <<>>, epoch |-> 0]]

\* The sequences of the successful generate calls of the trace, in order
RECURSIVE OutputFrom(_, _, _, _)
OutputFrom(tr, k, do_sample, epoch) ==
    IF k > Len(tr) THEN <<>>
    ELSE (IF IsGenerate(tr[k]) /\ tr[k].res = "ok"
          THEN <<Sampled(tr, k, do_sample, epoch)>> ELSE <<>>)
         \o OutputFrom(tr, k + 1, do_sample, epoch)

\* The running request is the first one observed, or the second
Epoch == IF IsNone(prev) THEN 1 ELSE 2

\* What the sequences generated so far by the running request are made of
Output == OutputFrom(trace, 1, Val(generation_config).do_sample, Epoch)

\* How each generate call of the request ended
Failures == [k \in 1..Len(Calls) |-> Calls[k].res]

---------------------------------------------------------------------------
(* Two requests for 3 sequences with batch_size=3, one after the other *)

SeedRequest == RequestWith({3}, {Some(3)})

\* The observer notes what a seeded, sampled request returned, and the caller
\* takes the value as in Finish
Remember ==
    /\ pc = "returned"
    /\ IsNone(prev)
    /\ ~IsNone(Val(req).seed)
    /\ Val(generation_config).do_sample
    /\ prev' = Some([req |-> Val(req), generation_config |-> Val(generation_config),
                     calls |-> Calls, failures |-> Failures, output |-> Output])
    /\ pc' = "idle"
    /\ req' = None
    /\ generation_config' = None
    /\ num_return_sequences' = 0
    /\ batch_size' = 0
    /\ first_output' = <<>>
    /\ batch_sizes' = <<>>
    /\ i' = 0
    /\ generated_text' = <<>>
    /\ result' = NoResult
    /\ error' = ""
    /\ trace' = <<>>
    /\ passed' = <<>>
    /\ UNCHANGED <<objvars, directvars, held>>

NextSeed ==
    \/ SeedRequest
    \/ ExecGenerateOk
    \/ ExecGenerateOOM
    \/ ExecGenerateError
    \/ ExecRetry
    \/ BatchGenerateOk
    \/ BatchGenerateOOM
    \/ BatchGenerateError
    \/ Finish
    \/ Remember

SpecSeed == Init /\ [][NextSeed]_vars

---------------------------------------------------------------------------
(* The footprint getters, generate_conversation and a caller that writes into
   what the getters returned *)

\* Mutant: the dict of the object itself is returned
get_gpu_memory_footprint_no_copy(map) == [shared |-> TRUE, value |-> map]

\* return copy.deepcopy(self.gpu_memory_map), line 118. shared tells whether the
\* dict returned is the object's own dict
get_gpu_memory_footprint(map) == [shared |-> FALSE, value |-> map]

\* The key 'cpu' of the dict of line 128 (the device number of the cpu, line 61)
Cpu == -1

\* lines 126-133
get_memory_footprint(map, footprint) ==
    LET gpu_footprint == get_gpu_memory_footprint(map)
    IN  IF DOMAIN gpu_footprint.value = {}
        THEN [shared |-> FALSE, value |-> (Cpu :> footprint)]
        ELSE gpu_footprint

GetGpuMemoryFootprint ==
    /\ pc = "idle"
    /\ held' = Some(get_gpu_memory_footprint(gpu_memory_map))
    /\ UNCHANGED <<objvars, pc, req, generation_config, num_return_sequences, batch_size,
                   first_output, batch_sizes, i, generated_text, result, error, trace,
                   directvars, prev, passed>>

GetMemoryFootprint ==
    /\ pc = "idle"
    /\ held' = Some(get_memory_footprint(gpu_memory_map, max_memory_footprint))
    /\ UNCHANGED <<objvars, pc, req, generation_config, num_return_sequences, batch_size,
                   first_output, batch_sizes, i, generated_text, result, error, trace,
                   directvars, prev, passed>>

\* get_max_device_memory_footprint, lines 136-138: the caller gets a float and
\* holds no dict any more
GetMaxDeviceMemoryFootprint ==
    /\ pc = "idle"
    /\ ~IsNone(held)
    /\ held' = None
    /\ UNCHANGED <<objvars, pc, req, generation_config, num_return_sequences, batch_size,
                   first_output, batch_sizes, i, generated_text, result, error, trace,
                   directvars, prev, passed>>

\* The dict d after d[key] = 0, and after d.pop(key)
DictSet(d, key) == [k \in DOMAIN d \cup {key} |-> IF k = key THEN 0 ELSE d[k]]
DictPop(d, key) == [k \in DOMAIN d \ {key} |-> d[k]]

\* The caller writes into the dict it holds (an entry of the dict or the entry
\* of device 0); the object's dict changes with it when it is the same dict
CallerMutates ==
    /\ pc = "idle"
    /\ ~IsNone(held)
    /\ \E key \in DOMAIN Val(held).value \cup {0} :
       \E value \in {DictSet(Val(held).value, key), DictPop(Val(held).value, key)} :
          /\ value # Val(held).value
          /\ held' = Some([shared |-> Val(held).shared, value |-> value])
          /\ gpu_memory_map' = IF Val(held).shared THEN value ELSE gpu_memory_map
    /\ UNCHANGED <<max_memory_footprint, pc, req, generation_config, num_return_sequences,
                   batch_size, first_output, batch_sizes, i, generated_text, result, error,
                   trace, directvars, prev, passed>>

\* generate_conversation, lines 727-768: the seed, the config, the transfer of
\* the prompt and one model.generate call for one sequence, with no retry
GenerateConversation ==
    /\ pc = "idle"
    /\ \E do_sample \in BOOLEAN, temperature \in Temperatures, seed \in Seeds,
          ids \in IdSources, cuda \in CudaAvailable(gpu_memory_map),
          kind \in {"ok", "oom", "err"} :
        LET cfg == create_generation_config(ids, 60, 5, do_sample, Some(50), Some(9),
                                            temperature)
            tr0 == TraceAtConfig(seed)
            tr1 == tr0 \o (IF cuda THEN <<Ev("to_device", 0, "", "generate_conversation")>>
                                   ELSE <<>>)
            tr2 == Append(tr1, Ev("generate", 1, kind, "generate_conversation"))
        IN  /\ req' = Some([num_return_sequences |-> 1, do_sample |-> do_sample,
                            temperature |-> temperature, seed |-> seed,
                            batch_size |-> Some(1)])
            /\ IF ~cfg.ok
               THEN /\ Raise(cfg.err, tr0)
                    /\ UNCHANGED <<generation_config, result, passed>>
               ELSE /\ generation_config' = Some(cfg)
                    /\ passed' = <<ExecGenerateArgs(Some(cfg), tr1, 1)>>
                    /\ IF kind = "ok"
                       THEN /\ pc' = "returned"
                            /\ trace' = tr2
                            /\ result' = [kind |-> "conversation", value |-> Rows(1, 1)]
                            /\ UNCHANGED error
                       ELSE /\ Raise(IF kind = "oom" THEN "OutOfMemoryError"
                                                    ELSE "GenerateError", tr2)
                            /\ UNCHANGED result
    /\ UNCHANGED <<objvars, num_return_sequences, batch_size, first_output, batch_sizes, i,
                   generated_text, directvars, prev, held>>

\* generate_text for 2 sequences, with the batch size estimated
ObjectRequest == RequestWith({2}, {None})

NextObject ==
    \/ ObjectRequest
    \/ ExecGenerateOk
    \/ ExecGenerateOOM
    \/ ExecGenerateError
    \/ ExecRetry
    \/ BatchGenerateOk
    \/ BatchGenerateOOM
    \/ BatchGenerateError
    \/ Finish
    \/ GenerateConversation
    \/ GetGpuMemoryFootprint
    \/ GetMemoryFootprint
    \/ GetMaxDeviceMemoryFootprint
    \/ CallerMutates

SpecObject == Init /\ [][NextObject]_vars

---------------------------------------------------------------------------
(* The claims *)

\* C1: once the executor has returned an effective batch size B >= 1 for a
\* request of N sequences, batch_sizes sums to N, every entry is between 1 and
\* B, and every entry but the last is exactly B.
C1_BatchPlan ==
    (batch_sizes # <<>> /\ batch_size >= 1) =>
        /\ SumSeq(batch_sizes) = num_return_sequences
        /\ \A k \in 1..Len(batch_sizes) :
              /\ batch_sizes[k] >= 1
              /\ batch_sizes[k] <= batch_size
              /\ (k < Len(batch_sizes) => batch_sizes[k] = batch_size)

\* A plan of three batches whose last one is the smaller remainder
C1_Witness ==
    /\ pc = "returned"
    /\ Len(batch_sizes) = 3
    /\ batch_sizes[3] < batch_size
    /\ batch_sizes[1] = batch_size

\* C2: infer_best_batch_size never returns a batch size below 1 when the
\* available memory is not negative, with a calibration table or without.
C2_EstimateAtLeastOne ==
    ( /\ ~IsNone(est_out)
      /\ Val(est_out).ok
      /\ AvailableMemory(Val(est_in).memory, max_memory_footprint) >= 0 )
    => Val(est_out).value >= 1

\* C3: a request that returns has produced exactly the requested number of
\* sequences (after the greedy collapse): the rows of the executor's successful
\* call first, then the rows of each later call in the order of the calls, each
\* call's rows in the order it returned them.
C3_OutputsInOrder ==
    pc = "returned" =>
        /\ generated_text = OkRows(Calls, 1)
        /\ Len(generated_text) = RequestedCount
        /\ Len(Attempts) >= 1
        /\ Attempts[Len(Attempts)].res = "ok"
        /\ generated_text = first_output \o OkRows(LaterCalls, Len(Attempts) + 1)
        /\ \/ result.kind = "list" /\ result.value = generated_text
           \/ result.kind = "str" /\ generated_text = <<result.value>>

\* A returned request of three batches whose executor had to retry
C3_Witness ==
    /\ pc = "returned"
    /\ Len(Attempts) >= 2
    /\ Len(LaterCalls) = 2
    /\ Len(generated_text) = 5

\* C4: from an initial batch size b0 >= 1 the sizes the executor attempts
\* never increase, each retry is at max(1, floor(0.8 * previous)), there are at
\* most b0 attempts, and when all of them ran out of memory the last one was at
\* size 1.
C4_AttemptsShrink ==
    (Len(Attempts) >= 1 /\ Attempts[1].size >= 1) =>
        /\ \A k \in 1..(Len(Attempts) - 1) :
              /\ Attempts[k + 1].size <= Attempts[k].size
              /\ Attempts[k + 1].size = Max(1, (4 * Attempts[k].size) \div 5)
              /\ Attempts[k].res = "oom"
        /\ Len(Attempts) <= Attempts[1].size
        /\ ( /\ pc = "raised"
             /\ \A k \in 1..Len(Attempts) : Attempts[k].res = "oom" )
           => Attempts[Len(Attempts)].size = 1

\* Out of memory at 5, 4, 3, 2 and 1
C4_Witness ==
    /\ pc = "raised"
    /\ Len(Attempts) = 5
    /\ Attempts[1].size = 5
    /\ Attempts[5].size = 1
    /\ Attempts[5].res = "oom"

\* C5: an out-of-memory failure of a generate call asking for more than one
\* sequence, in the executor or in a later batch, never ends the request: the
\* next call asks for the reduced size.
C5_OOMHandledEverywhere ==
    \A k \in 1..Len(Calls) :
        (Calls[k].res = "oom" /\ Calls[k].size > 1) =>
            /\ ~(pc = "raised" /\ k = Len(Calls))
            /\ (k < Len(Calls) => Calls[k + 1].size = Max(1, (4 * Calls[k].size) \div 5))

\* C6: after the executor's generate call at batch size 1 ran out of memory
\* there is no further generate call and no output: the request stands at the
\* failure or has raised the executor's RuntimeError.
C6_FloorIsFatal ==
    \A k \in 1..Len(trace) :
        (IsExecGenerate(trace[k]) /\ trace[k].res = "oom" /\ trace[k].size = 1) =>
            /\ k = Len(trace)
            /\ pc \in {"exec_failed", "raised"}
            /\ (pc = "raised" => error = "RuntimeError: OOM at batch size 1")
            /\ first_output = <<>>
            /\ generated_text = <<>>
            /\ result = NoResult

\* The error raised after out of memory at 3, 2 and 1
C6_Witness ==
    /\ pc = "raised"
    /\ error = "RuntimeError: OOM at batch size 1"
    /\ Len(Attempts) = 3

\* C7: an error of the executor's generate call that is not out of memory is
\* the request's error at once: nothing follows the call (no warning, release
\* or retry), the batch size is the one of the call, there is no output.
C7_OtherErrorPropagates ==
    \A k \in 1..Len(trace) :
        (IsExecGenerate(trace[k]) /\ trace[k].res = "err") =>
            /\ k = Len(trace)
            /\ pc = "raised"
            /\ error = "GenerateError"
            /\ batch_size = trace[k].size
            /\ first_output = <<>>
            /\ result = NoResult

\* The error of a call at size 2, after a reduction from 3
C7_Witness ==
    /\ pc = "raised"
    /\ error = "GenerateError"
    /\ Len(Attempts) = 2
    /\ Attempts[2].size = 2
    /\ Attempts[2].res = "err"

\* C8: between an executor call that ran out of memory and the executor's
\* next call, gc.collect and then the emptying of the cache happen; the retry
\* starts from the state after the except block, right after the release.
C8_ReleaseBeforeRetry ==
    /\ \A k, j \in 1..Len(trace) :
          ( /\ k < j
            /\ IsExecGenerate(trace[k])
            /\ trace[k].res = "oom"
            /\ IsExecGenerate(trace[j]) )
          => \E g, e \in (k + 1)..(j - 1) :
                /\ g < e
                /\ trace[g].ev = "gc"
                /\ trace[e].ev = "empty_cache"
                /\ \A m \in (k + 1)..e : ~IsGenerate(trace[m])
    /\ (pc = "exec_call" /\ Len(Attempts) >= 1) => trace[Len(trace)].ev = "empty_cache"
    /\ pc = "exec_failed" => (IsExecGenerate(trace[Len(trace)]) /\ trace[Len(trace)].res = "oom")

\* A retry that succeeded
C8_Witness ==
    /\ pc = "returned"
    /\ Len(Attempts) = 2
    /\ Attempts[1].res = "oom"
    /\ Attempts[2].res = "ok"

\* C9: asked for 20 sampled sequences with batch size 10, the executor starts
\* at 10, retries at 8 and then at 6; when 10 and 8 ran out of memory and 6
\* succeeded it returns 6, the plan is [6, 6, 6, 2], the first 6 sequences are
\* the executor's and the later calls ask for 6, 6 and 2 in this order.
C9_WorkedExample ==
    (ConfigBuilt /\ ~GreedyAsked /\ Val(req).num_return_sequences = 20
        /\ Val(req).batch_size = Some(10)) =>
        /\ Len(Attempts) >= 1 => Attempts[1].size = 10
        /\ (Len(Attempts) >= 2 /\ Attempts[1].res = "oom") => Attempts[2].size = 8
        /\ (Len(Attempts) >= 3 /\ Attempts[2].res = "oom") => Attempts[3].size = 6
        /\ ( /\ Len(Attempts) = 3
             /\ Attempts[1].res = "oom"
             /\ Attempts[2].res = "oom"
             /\ Attempts[3].res = "ok" )
           => /\ batch_size = 6
              /\ batch_sizes = <<6, 6, 6, 2>>
              /\ first_output = Rows(3, 6)
              /\ Len(LaterCalls) <= 3
              /\ \A k \in 1..Len(LaterCalls) : LaterCalls[k].size = <<6, 6, 2>>[k]
              /\ pc = "returned" =>
                    /\ Len(LaterCalls) = 3
                    /\ result.kind = "list"
                    /\ result.value = Rows(3, 6) \o Rows(4, 6) \o Rows(5, 6) \o Rows(6, 2)

\* The example run to its end
C9_Witness ==
    /\ pc = "returned"
    /\ Len(Attempts) = 3
    /\ Attempts[1].size = 10
    /\ batch_sizes = <<6, 6, 6, 2>>
    /\ Len(generated_text) = 20

\* C10: a request for more than one sequence with sampling disabled is
\* collapsed to one sequence: the warning is given, the request goes on, every
\* generate call asks for exactly 1 sequence and one sequence is returned.
C10_GreedyCollapse ==
    (ConfigBuilt /\ Val(req).num_return_sequences > 1 /\ GreedyAsked) =>
        /\ num_return_sequences = 1
        /\ \E k \in 1..Len(trace) : trace[k].ev = "warn_greedy"
        /\ \A k \in 1..Len(Calls) : Calls[k].size = 1
        /\ pc = "returned" => (result.kind = "str" /\ Len(generated_text) = 1)

\* C11: a returned request whose caller passed num_return_sequences > 1 has
\* returned a list, and one that returned a single string was called with
\* num_return_sequences = 1.
C11_ListWhenMoreThanOne ==
    pc = "returned" =>
        /\ (Val(req).num_return_sequences > 1 => result.kind = "list")
        /\ (result.kind = "str" => Val(req).num_return_sequences = 1)

\* C12: a returned request whose caller asked for exactly one sequence has
\* returned the one generated string itself, not a list, whatever batch size
\* was passed or estimated.
C12_SingleValueForOne ==
    (pc = "returned" /\ Val(req).num_return_sequences = 1) =>
        /\ result.kind = "str"
        /\ Len(generated_text) = 1
        /\ result.value = generated_text[1]
        /\ result.value = <<Len(Attempts), 1>>

\* One sequence asked for with batch_size=3
C12_Witness ==
    /\ pc = "returned"
    /\ Val(req).num_return_sequences = 1
    /\ Val(req).batch_size = Some(3)
    /\ result.kind = "str"

\* C13: the first attempt of the executor asks for at most the number of
\* sequences of the request (after the greedy collapse), and so does every
\* generate call of the request: failed attempt, first batch or later batch.
C13_NeverMoreThanNeeded ==
    ConfigBuilt =>
        /\ (Len(Attempts) >= 1 => Attempts[1].size <= RequestedCount)
        /\ (pc = "exec_call" => batch_size <= RequestedCount)
        /\ \A k \in 1..Len(Calls) : Calls[k].size <= RequestedCount

\* batch_size=3 passed for 2 sampled sequences: the first attempt asks for 2
C13_Witness ==
    /\ ConfigBuilt
    /\ Val(req).batch_size = Some(3)
    /\ RequestedCount = 2
    /\ Len(Attempts) >= 1
    /\ Attempts[1].size = 2

\* C14: when the caller passes batch_size = b >= 1, the estimator is not
\* consulted (no estimate, no error of the estimator) and no generate call of
\* the request asks for more than b sequences.
C14_ExplicitBatchSizeIsMaximum ==
    (~IsNone(req) /\ ~IsNone(Val(req).batch_size) /\ Val(Val(req).batch_size) >= 1) =>
        /\ \A k \in 1..Len(trace) : trace[k].ev # "estimate"
        /\ error # "OverflowError"
        /\ \A k \in 1..Len(Calls) : Calls[k].size <= Val(Val(req).batch_size)

\* batch_size=2 passed for 5 sequences: three calls, of 2, 2 and 1
C14_Witness ==
    /\ pc = "returned"
    /\ Val(req).batch_size = Some(2)
    /\ Val(req).num_return_sequences = 5
    /\ Len(Calls) = 3
    /\ Calls[3].size = 1

\* The identifiers the three sources declare, in the order the claims name the
\* sources: generation defaults, static configuration, tokenizer
Declared(ids, name) == << ids.gen[name], ids.cfg[name], ids.tok[name] >>

MissingEverywhere(ids, name) == \A s \in 1..3 : IsNone(Declared(ids, name)[s])

\* v is the value of the first source that declares one
FirstDeclared(ids, name, v) ==
    \E s \in 1..3 :
        /\ ~IsNone(Declared(ids, name)[s])
        /\ v = Declared(ids, name)[s]
        /\ \A t \in 1..(s - 1) : IsNone(Declared(ids, name)[t])

\* create_generation_config has returned a config
ConfigReturned == ~IsNone(cfg_out) /\ Val(cfg_out).ok

\* C15: the config returned has do_sample False when temperature is 0,
\* whatever do_sample the caller passed, and carries top_k, top_p and temperature
\* only when its do_sample is True (and then those the caller passed).
C15_SamplingOnlyWhenEnabled ==
    ConfigReturned =>
        /\ (Val(cfg_in).temperature = 0 => ~Val(cfg_out).do_sample)
        /\ (~IsNone(Val(cfg_out).sampling) => Val(cfg_out).do_sample)
        /\ (Val(cfg_out).do_sample =>
               Val(cfg_out).sampling = Some([top_k |-> Val(cfg_in).top_k, top_p |-> Some(9),
                                             temperature |-> Val(cfg_in).temperature]))

\* do_sample=True passed with temperature=0: greedy, no sampling parameters
C15_Witness ==
    /\ ConfigReturned
    /\ Val(cfg_in).do_sample
    /\ Val(cfg_in).temperature = 0
    /\ ~Val(cfg_out).do_sample
    /\ IsNone(Val(cfg_out).sampling)

\* C16: each of eos_token_id, bos_token_id and pad_token_id of the config
\* returned is the value of the first source that declares one, in the order
\* generation defaults, static configuration, tokenizer (for pad_token_id when
\* some source declares one).
C16_FirstSourceWins ==
    ConfigReturned =>
        /\ FirstDeclared(Val(cfg_in).ids, "eos", Val(cfg_out).eos_token_id)
        /\ FirstDeclared(Val(cfg_in).ids, "bos", Val(cfg_out).bos_token_id)
        /\ (~MissingEverywhere(Val(cfg_in).ids, "pad") =>
               FirstDeclared(Val(cfg_in).ids, "pad", Val(cfg_out).pad_token_id))

\* eos from the static configuration although the tokenizer declares one, bos
\* from the generation defaults although both others declare one
C16_Witness ==
    /\ ConfigReturned
    /\ IsNone(Val(cfg_in).ids.gen.eos)
    /\ ~IsNone(Val(cfg_in).ids.tok.eos)
    /\ Val(cfg_out).eos_token_id = Some(12)
    /\ ~IsNone(Val(cfg_in).ids.cfg.bos)
    /\ ~IsNone(Val(cfg_in).ids.tok.bos)
    /\ Val(cfg_out).bos_token_id = Some(1)

\* C17: create_generation_config raises exactly when eos_token_id or
\* bos_token_id is missing from all three sources; a pad_token_id missing from
\* all three raises nothing and the config gets the resolved eos_token_id for it.
C17_ErrorIffEosOrBosMissing ==
    ~IsNone(cfg_out) =>
        /\ ~Val(cfg_out).ok <=> \/ MissingEverywhere(Val(cfg_in).ids, "eos")
                               \/ MissingEverywhere(Val(cfg_in).ids, "bos")
        /\ (Val(cfg_out).ok /\ MissingEverywhere(Val(cfg_in).ids, "pad")) =>
               /\ Val(cfg_out).pad_token_id = Val(cfg_out).eos_token_id
               /\ ~IsNone(Val(cfg_out).pad_token_id)

\* No source declares a pad_token_id: the config has the tokenizer's eos for it
C17_Witness ==
    /\ ConfigReturned
    /\ MissingEverywhere(Val(cfg_in).ids, "pad")
    /\ Val(cfg_out).eos_token_id = Some(22)
    /\ Val(cfg_out).pad_token_id = Some(22)

\* The request raised the error of create_generation_config
ConfigErrorRaised ==
    /\ pc = "raised"
    /\ error \in {"RuntimeError: eos_token_id", "RuntimeError: bos_token_id"}

\* C18: a request that ends with the error of create_generation_config has
\* moved no input to a device, estimated no batch size and called generate
\* never.
C18_ConfigErrorBeforeDevice ==
    ConfigErrorRaised =>
        /\ \A k \in 1..Len(trace) :
              trace[k].ev \notin {"to_device", "estimate", "generate", "gc", "empty_cache"}
        /\ generation_config = None
        /\ first_output = <<>>
        /\ result = NoResult

\* A seeded request that found no eos_token_id
C18_Witness ==
    /\ ConfigErrorRaised
    /\ error = "RuntimeError: eos_token_id"
    /\ Len(trace) = 2
    /\ trace[1].ev = "seed"
    /\ trace[2].ev = "config"

\* The call of the worked example: the table {10: 2.0, 20: 4.0} (8 and 16
\* quarters) without only_scale_with_input_size, input length 10 and
\* max_new_tokens 10, on a device of 40 GiB with a model of 14 GiB:
\* 0.85 * 40 - 14 = 20 GiB available
WorkedEstimate ==
    /\ ~IsNone(est_in)
    /\ Val(est_in).table = Some([obs |-> (10 :> 8) @@ (20 :> 16),
                                 only_scale_with_input_size |-> FALSE])
    /\ Val(est_in).input_size = 10
    /\ Val(est_in).max_new_tokens = 10
    /\ Val(est_in).memory = 160
    /\ max_memory_footprint = 56

\* C19: with the table {10: 2.0, 20: 4.0}, only_scale_with_input_size false,
\* 20.0 GiB available, input length 10 and max_new_tokens 10, the fit predicts
\* 4.0 GiB (16 quarters) per sequence at length 20 and infer_best_batch_size
\* returns 5.
C19_WorkedEstimate ==
    (WorkedEstimate /\ ~IsNone(est_out)) =>
        /\ AvailableMemory(Val(est_in).memory, max_memory_footprint) = 80
        /\ MemoryNeededNum(Fit(Val(Val(est_in).table).obs), 20)
             = 16 * MemoryNeededDen(Fit(Val(Val(est_in).table).obs))
        /\ Val(est_out) = [ok |-> TRUE, value |-> 5]

\* The call of the example has returned
C19_Witness ==
    /\ WorkedEstimate
    /\ ~IsNone(est_out)
    /\ Val(est_out).value = 5

\* The memory one sequence is assumed to take, in quarters of a GiB: 0.5, 1, 2
\* or 3 GiB for a parameter count below 5, from 5 to below 10, from 10 to below
\* 20, from 20 on
AssumedPerSequence(parameters) ==
    CASE parameters < 5 -> 2
      [] parameters >= 5 /\ parameters < 10 -> 4
      [] parameters >= 10 /\ parameters < 20 -> 8
      [] parameters >= 20 -> 12

\* C20: infer_best_batch_size_by_heuristics returns max(1, floor(available
\* memory / c)) with c = 0.5, 1, 2 or 3 GiB by the band of the parameter count;
\* 7 billion parameters with 10.0 GiB (40 quarters) give 10; the result is at
\* least 1, also when the available memory is zero or negative.
C20_Heuristics ==
    ~IsNone(heur_out) =>
        LET parameters == Val(heur_in).parameters
            available_memory == Val(heur_in).available_memory
            c == AssumedPerSequence(parameters)
            \* floor(available_memory / c): the q with q*c <= available_memory < (q+1)*c
            q == CHOOSE n \in (-MaxAvailableMemory)..MaxAvailableMemory :
                     n * c <= available_memory /\ available_memory < (n + 1) * c
        IN  /\ Val(heur_out) = IF q >= 1 THEN q ELSE 1
            /\ Val(heur_out) >= 1
            /\ (parameters = 7 /\ available_memory = 40) => Val(heur_out) = 10

\* The example of the claim has returned
C20_Witness ==
    /\ ~IsNone(heur_out)
    /\ Val(heur_in) = [parameters |-> 7, available_memory |-> 40]
    /\ Val(heur_out) = 10

\* The running request has the seed, the arguments and the generation config
\* of the request observed before (the prompt is the same throughout)
SameRequestAgain ==
    /\ ~IsNone(prev)
    /\ ConfigBuilt
    /\ Val(req) = Val(prev).req
    /\ Val(generation_config) = Val(prev).generation_config

C22_FootprintsImmutable ==
    /\ [][gpu_memory_map' = gpu_memory_map /\ max_memory_footprint' = max_memory_footprint]_vars
    /\ [](DOMAIN gpu_memory_map # {} =>
            max_memory_footprint = MaxFootprint(gpu_memory_map, 0))

\* The caller has emptied the dict it got for a model on a gpu, and a request
\* has returned since
C22_Witness ==
    /\ ~IsNone(held)
    /\ Val(held).value = <<>>
    /\ DOMAIN gpu_memory_map # {}
    /\ pc = "returned"

\* The executor has returned: its last attempt succeeded
ExecutorReturned == Len(Attempts) >= 1 /\ Attempts[Len(Attempts)].res = "ok"

\* The generate calls of the request that succeeded
OkCalls == SelectSeq(Calls, LAMBDA e : e.res = "ok")

\* C23: after the executor returned B with 1 <= B < N, the later generate
\* calls are those of the plan entries after the first, in the order of the
\* plan and of their sizes (B for a full batch, N mod B for the remainder);
\* the executor is not called again; a request that returned has made exactly
\* ceil(N / B) successful generate calls.
C23_OneCallPerPlanEntry ==
    (ExecutorReturned /\ batch_size >= 1 /\ batch_size < num_return_sequences) =>
        LET N == num_return_sequences
            B == batch_size
        IN  /\ Len(batch_sizes) = (N + B - 1) \div B
            /\ Len(LaterCalls) <= Len(batch_sizes) - 1
            /\ \A k \in 1..Len(LaterCalls) :
                  /\ LaterCalls[k].size = batch_sizes[k + 1]
                  /\ LaterCalls[k].size = IF k + 1 < Len(batch_sizes) \/ N % B = 0
                                          THEN B ELSE N % B
                  /\ (k < Len(LaterCalls) => LaterCalls[k].res = "ok")
            /\ Calls = Attempts \o LaterCalls
            /\ Len(SelectSeq(Attempts, LAMBDA e : e.res = "ok")) = 1
            /\ pc = "returned" =>
                  /\ Len(LaterCalls) = Len(batch_sizes) - 1
                  /\ Len(OkCalls) = (N + B - 1) \div B

\* 5 sequences, the executor reduced from 3 to 2: later calls of 2 and 1
C23_Witness ==
    /\ pc = "returned"
    /\ Attempts[1].size = 3
    /\ batch_size = 2
    /\ num_return_sequences = 5
    /\ Len(LaterCalls) = 2
    /\ LaterCalls[2].size = 1

\* The request is between its first model.generate call and its end
Running == pc \in {"exec_call", "exec_failed", "batch_call"}

Ended == pc \in {"returned", "raised"}

\* C24: whatever the generate calls do (return, run out of memory, raise
\* another error), a running request ends, by returning or by raising; from an
\* initial batch size b0 >= 1 the executor makes at most b0 attempts, and after
\* it returned B >= 1 generate_text makes at most ceil(N / B) - 1 further calls.
C24_RequestTerminates ==
    /\ [](( Len(Attempts) >= 1 /\ Attempts[1].size >= 1 ) =>
            /\ Len(Attempts) <= Attempts[1].size
            /\ Len(Calls) <= Attempts[1].size + num_return_sequences - 1
            /\ (ExecutorReturned =>
                   Len(LaterCalls) <= (num_return_sequences + batch_size - 1)
                                          \div batch_size - 1))
    /\ (Running ~> Ended)

\* A request that raised after three attempts of the executor, two later
\* batches and the failure of the third
C24_Witness ==
    /\ pc = "raised"
    /\ Len(Attempts) = 3
    /\ Len(LaterCalls) = 3
    /\ LaterCalls[3].res = "oom"

\* gc.collect or torch.cuda.empty_cache
IsRelease(e) == e.ev \in {"gc", "empty_cache"}

\* The call at position k of the trace is one that nothing is released after: a
\* call that succeeded, raised another error or ran out of memory at size 1,
\* or a call of a later batch
NoReleaseAfter(e) ==
    IsGenerate(e) /\ (e.res # "oom" \/ e.size = 1 \/ e.by = "generate_text")

\* C25: in a request whose executor started at a batch size >= 1, memory is
\* released only by the executor, right after the warning that follows an
\* out-of-memory failure of its call at a size > 1, by one gc.collect and one
\* emptying of the cache before the retry; nothing is released after a call
\* that succeeded, raised another error or ran out of memory at size 1, nor
\* between the later batches.
C25_ReleaseOnlyBeforeRetry ==
    (Len(Attempts) >= 1 /\ Attempts[1].size >= 1) =>
        /\ \A k \in 1..Len(trace) :
              /\ IsRelease(trace[k]) => trace[k].by = "executor"
              /\ trace[k].ev = "gc" =>
                    /\ k >= 3
                    /\ trace[k - 1].ev = "warn_reduce"
                    /\ IsExecGenerate(trace[k - 2])
                    /\ trace[k - 2].res = "oom"
                    /\ trace[k - 2].size > 1
                    /\ k < Len(trace)
                    /\ trace[k + 1].ev = "empty_cache"
              /\ trace[k].ev = "empty_cache" =>
                    /\ k >= 2
                    /\ trace[k - 1].ev = "gc"
                    /\ (k < Len(trace) => IsExecGenerate(trace[k + 1]))
              /\ ( IsExecGenerate(trace[k]) /\ trace[k].res = "oom" /\ trace[k].size > 1 ) =>
                    \/ k = Len(trace) /\ pc = "exec_failed"
                    \/ /\ k + 3 <= Len(trace)
                       /\ trace[k + 2].ev = "gc"
                       /\ trace[k + 3].ev = "empty_cache"
              /\ ( NoReleaseAfter(trace[k]) /\ k < Len(trace) ) =>
                    /\ IsBatchGenerate(trace[k + 1])
                    /\ \A j \in (k + 1)..Len(trace) : ~IsRelease(trace[j])
        /\ Len(SelectSeq(trace, LAMBDA e : e.ev = "gc"))
             = Len(SelectSeq(Attempts, LAMBDA e : e.res = "oom" /\ e.size > 1))
               - (IF pc = "exec_failed" /\ batch_size > 1 THEN 1 ELSE 0)

\* Two releases, for the failures at 3 and at 2, and none for the two later batches
C25_Witness ==
    /\ pc = "returned"
    /\ Len(Attempts) = 3
    /\ Len(LaterCalls) = 2
    /\ Len(SelectSeq(trace, LAMBDA e : e.ev = "gc")) = 2
    /\ Len(SelectSeq(trace, LAMBDA e : e.ev = "empty_cache")) = 2

\* floor(a / b) for b # 0, found as the q with q * b <= a < (q + 1) * b when
\* b > 0 and with the inequalities turned when b < 0
FloorOfQuotient(a, b) ==
    CHOOSE q \in (-400)..400 :
        IF b > 0 THEN q * b <= a /\ a < (q + 1) * b
                 ELSE q * b >= a /\ a > (q + 1) * b

\* C26: infer_best_batch_size returns what infer_best_batch_size_by_heuristics
\* returns for the same available memory when there is no table (and raises
\* nothing) or when the fit of the table has r^2 < 0.95; else, when the memory
\* predicted is not zero, floor(available_memory / (intercept + slope * L)),
\* with L the input length when only_scale_with_input_size is true and the
\* input length plus max_new_tokens when it is false.
C26_EstimatorPaths ==
    ~IsNone(est_out) =>
        LET a == Val(est_in)
            available_memory == (17 * a.memory) \div 20 - max_memory_footprint
            heuristics == infer_best_batch_size_by_heuristics(a.parameters,
                                                              available_memory)
        IN  IF IsNone(a.table)
            THEN Val(est_out) = [ok |-> TRUE, value |-> heuristics]
            ELSE LET obs == Val(a.table).obs
                     fit == Fit(obs)
                     L == IF Val(a.table).only_scale_with_input_size
                          THEN a.input_size ELSE a.input_size + a.max_new_tokens
                     \* intercept + slope * L = num / den, den > 0
                     den == fit.n * fit.sxx
                     num == fit.sy * fit.sxx - fit.sxy * fit.sx + fit.n * fit.sxy * L
                     \* r^2 < 0.95; r^2 is not a number when all memories are equal
                     poor == fit.syy = 0
                             \/ 100 * fit.sxy * fit.sxy < 95 * fit.sxx * fit.syy
                 IN  IF poor
                     THEN Val(est_out) = [ok |-> TRUE, value |-> heuristics]
                     ELSE IF num = 0 THEN ~Val(est_out).ok
                     ELSE Val(est_out) = [ok |-> TRUE,
                              value |-> FloorOfQuotient(available_memory * den, num)]

\* A table that fits with only_scale_with_input_size: 10 tokens take 2 GiB, and
\* the 6.5 GiB available hold 3 sequences although max_new_tokens is 10
C26_Witness ==
    /\ ~IsNone(est_out)
    /\ Val(est_in).memory = 40
    /\ max_memory_footprint = 8
    /\ Val(est_in).table = Some([obs |-> (10 :> 8) @@ (20 :> 16),
                                 only_scale_with_input_size |-> TRUE])
    /\ Val(est_in).input_size = 10
    /\ Val(est_in).max_new_tokens = 10
    /\ Val(est_out) = [ok |-> TRUE, value |-> 3]

\* C27: in a request that got its generation config, the config was built
\* once, and every model.generate call so far (failed attempt, first batch,
\* later batch) was passed that config, the same input and the same stopping
\* criteria; the calls differ in num_return_sequences only.
C27_SameArgumentsEveryCall ==
    ConfigBuilt =>
        /\ Len(SelectSeq(trace, LAMBDA e : e.ev = "config")) = 1
        /\ Len(passed) = Len(Calls)
        /\ \A k \in 1..Len(passed) :
              /\ passed[k].generation_config = generation_config
              /\ passed[k].input = passed[1].input
              /\ passed[k].input = InputOf(trace)
              /\ passed[k].stopping_criteria = passed[1].stopping_criteria
              /\ passed[k].num_return_sequences = Calls[k].size

\* Four calls: a failed attempt at 3, the first batch of 2, later batches of 2
\* and 1
C27_Witness ==
    /\ pc = "returned"
    /\ Len(passed) = 4
    /\ passed[1].num_return_sequences = 3
    /\ passed[2].num_return_sequences = 2
    /\ passed[4].num_return_sequences = 1
    /\ Calls[1].res = "oom"

\* C28: when the executor has returned (out, B) from an initial batch size
\* b0 >= 1, B is the size of its last attempt, the last attempt is the only one
\* that succeeded, out is what that attempt's call returned, 1 <= B <= b0, and
\* B = b0 exactly when the first attempt succeeded.
C28_ExecutorResult ==
    (ExecutorReturned /\ Attempts[1].size >= 1) =>
        LET n == Len(Attempts)
        IN  /\ batch_size = Attempts[n].size
            /\ \A k \in 1..(n - 1) : Attempts[k].res = "oom"
            /\ first_output = Rows(n, batch_size)
            /\ Len(first_output) = batch_size
            /\ batch_size >= 1
            /\ batch_size <= Attempts[1].size
            /\ (batch_size = Attempts[1].size) <=> (Attempts[1].res = "ok")

\* The executor returned 1 from 3, after two attempts that ran out of memory
C28_Witness ==
    /\ ExecutorReturned
    /\ Len(Attempts) = 3
    /\ Attempts[1].size = 3
    /\ batch_size = 1
    /\ first_output = <<<<3, 1>>>>

\* A generate call of a batch of the plan raised: a call of a later batch, or
\* the executor's call with an error other than out of memory or out of memory
\* at size 1
BatchFailed ==
    \E k \in 1..Len(Calls) :
        /\ Calls[k].res # "ok"
        /\ \/ Calls[k].by = "generate_text"
           \/ Calls[k].res = "err"
           \/ Calls[k].size = 1

====
